---- MODULE Spec2Model ----
(***************************************************************************)
(* Model of the semver package: Parse, Compare, comparePrerelease, the     *)
(* printer (Semver.Print and its named renderings), the mutators and       *)
(* List.Sort.                                                              *)
(*                                                                         *)
(* A Go string is a sequence of one-character strings; Code gives each     *)
(* character its byte value.  Offsets are 0-based as in the Go code:       *)
(* At(x, i) is x[i] and Slice(x, i, j) is x[i:j].                          *)
(***************************************************************************)
EXTENDS Integers, Sequences, FiniteSets

VARIABLES pc, s, v, ok, canon, w, out, pmask, a, b, c, r, pa, pb, rp, ls0, ls, alt,
          rcv, nv, nok, op, arg, depth

parseVars == <<s, v, ok, canon, w, out, pmask>>
cmpVars   == <<a, b, c, r>>
preVars   == <<pa, pb, rp>>
sortVars  == <<ls0, ls, alt>>
mutVars   == <<rcv, nv, nok, op, arg, depth>>
vars      == <<pc, parseVars, cmpVars, preVars, sortVars, mutVars>>

----------------------------------------------------------------------------
(* Bounds *)

\* longest run of free characters appended to an input prefix
MaxLen == 3

\* width of the host int in bits
IntBits == 5

\* longest prerelease text given to comparePrerelease
MaxPreLen == 3

\* longest list given to List.Sort
MaxList == 3

\* longest chain of mutator calls
MaxCalls == 2

\* longest free text given to WithPre and WithBuild
MaxArgLen == 3

\* longest decimal text that the reference rendering of a number looks for
MaxDecimalLen == 3

----------------------------------------------------------------------------
(* Strings *)

Digits == {"0", "1", "2", "3", "4", "5", "6", "7", "8", "9"}

Letters ==
  {"A", "V", "Z", "a", "b", "c", "d", "e", "g", "h", "l", "p", "r", "s", "t",
   "v", "z"}

Code ==
  [ch \in Digits \cup Letters \cup {"!", "+", "-", "."} |->
     CASE ch = "!" -> 33 [] ch = "+" -> 43 [] ch = "-" -> 45 [] ch = "." -> 46
       [] ch = "0" -> 48 [] ch = "1" -> 49 [] ch = "2" -> 50 [] ch = "3" -> 51
       [] ch = "4" -> 52 [] ch = "5" -> 53 [] ch = "6" -> 54 [] ch = "7" -> 55
       [] ch = "8" -> 56 [] ch = "9" -> 57
       [] ch = "A" -> 65 [] ch = "V" -> 86 [] ch = "Z" -> 90
       [] ch = "a" -> 97 [] ch = "b" -> 98 [] ch = "c" -> 99
       [] ch = "d" -> 100 [] ch = "e" -> 101 [] ch = "g" -> 103
       [] ch = "h" -> 104 [] ch = "l" -> 108 [] ch = "p" -> 112
       [] ch = "r" -> 114 [] ch = "s" -> 115 [] ch = "t" -> 116
       [] ch = "v" -> 118 [] ch = "z" -> 122]

At(x, i) == x[i + 1]

Slice(x, i, j) == SubSeq(x, i + 1, j)

From(x, i) == SubSeq(x, i + 1, Len(x))

IsDigit(ch) == Code["0"] <= Code[ch] /\ Code[ch] <= Code["9"]

DigitVal(ch) == Code[ch] - Code["0"]

DigitChar(d) == CHOOSE ch \in Digits : DigitVal(ch) = d

\* Go's string "<": byte-wise lexicographic, a proper prefix is smaller
RECURSIVE StrLess(_, _)
StrLess(x, y) ==
  IF y = <<>> THEN FALSE
  ELSE IF x = <<>> THEN TRUE
  ELSE IF Code[Head(x)] # Code[Head(y)] THEN Code[Head(x)] < Code[Head(y)]
  ELSE StrLess(Tail(x), Tail(y))

----------------------------------------------------------------------------
(* Flags *)

FlagHasV     == "FlagHasV"
FlagHasMajor == "FlagHasMajor"
FlagHasMinor == "FlagHasMinor"
FlagHasPatch == "FlagHasPatch"
FlagHasPre   == "FlagHasPre"
FlagHasBuild == "FlagHasBuild"

\* mutation: the failure value forgets the input
Invalid_NoOriginal(orig) ==
  [Original |-> <<>>, Prerelease |-> <<>>, Build |-> <<>>,
   Major |-> 0, Minor |-> 0, Patch |-> 0, Flags |-> {}, Valid |-> FALSE]

\* the zero value of every field but Original
Invalid(orig) ==
  [Original |-> orig, Prerelease |-> <<>>, Build |-> <<>>,
   Major |-> 0, Minor |-> 0, Patch |-> 0, Flags |-> {}, Valid |-> FALSE]

----------------------------------------------------------------------------
(* Grammar scanner *)

MaxInt == 2^(IntBits - 1) - 1

MaxDigits == 19

isIdentChar(ch) ==
  \/ Code["A"] <= Code[ch] /\ Code[ch] <= Code["Z"]
  \/ Code["a"] <= Code[ch] /\ Code[ch] <= Code["z"]
  \/ Code["0"] <= Code[ch] /\ Code[ch] <= Code["9"]
  \/ ch = "-"

RECURSIVE DigitPrefix(_, _)
\* the index after the digit run that starts at i
DigitPrefix(x, i) ==
  IF i < Len(x) /\ IsDigit(At(x, i)) THEN DigitPrefix(x, i + 1) ELSE i

\* mutation: leading zeros are never reported
isBadNum_Never(x) == FALSE

isBadNum(x) ==
  IF x = <<>> THEN FALSE
  ELSE LET i == DigitPrefix(x, 0) IN i = Len(x) /\ i > 1 /\ At(x, 0) = "0"

isNum(x) == DigitPrefix(x, 0) = Len(x)

RECURSIVE AtoiFrom(_, _)
\* strconv.Atoi on a digit run: the value, or the largest int when the
\* value is out of range (the error it then also returns is dropped)
AtoiFrom(x, acc) ==
  IF x = <<>> THEN acc
  ELSE AtoiFrom(Tail(x),
                IF acc * 10 + DigitVal(Head(x)) > MaxInt THEN MaxInt
                ELSE acc * 10 + DigitVal(Head(x)))

Atoi(x) == AtoiFrom(x, 0)

\* parseInt after its scan: the digit run is raw[i:j]
parseDigits(raw, i, j) ==
  IF At(raw, i) = "0" /\ j - i > 1
  THEN [val |-> 0, next |-> i, ok |-> FALSE]
  ELSE IF j - i > MaxDigits
  THEN [val |-> 0, next |-> i, ok |-> FALSE]
  ELSE [val |-> Atoi(Slice(raw, i, j)), next |-> j, ok |-> TRUE]

parseInt(raw, i) ==
  IF i >= Len(raw) \/ ~IsDigit(At(raw, i))
  THEN [val |-> 0, next |-> i, ok |-> FALSE]
  ELSE parseDigits(raw, i, DigitPrefix(raw, i + 1))

RECURSIVE prereleaseLoop(_, _, _)
\* the scanning loop of parsePrerelease from index i with the current
\* identifier starting at partStart
prereleaseLoop(raw, i, partStart) ==
  IF i < Len(raw) /\ At(raw, i) # "+"
  THEN LET ch == At(raw, i) IN
       IF ~(isIdentChar(ch) \/ ch = ".")
       THEN [ok |-> FALSE, i |-> i, partStart |-> partStart]
       ELSE IF ch = "."
       THEN IF partStart = i \/ isBadNum(Slice(raw, partStart, i))
            THEN [ok |-> FALSE, i |-> i, partStart |-> partStart]
            ELSE prereleaseLoop(raw, i + 1, i + 1)
       ELSE prereleaseLoop(raw, i + 1, partStart)
  ELSE [ok |-> TRUE, i |-> i, partStart |-> partStart]

\* parsePrerelease after its loop, which ended in l
prereleaseEnd(raw, start, l) ==
  IF ~l.ok THEN [start |-> 0, end |-> 0, next |-> 0, ok |-> FALSE]
  ELSE IF l.partStart = l.i \/ isBadNum(Slice(raw, l.partStart, l.i))
  THEN [start |-> 0, end |-> 0, next |-> 0, ok |-> FALSE]
  ELSE [start |-> start, end |-> l.i, next |-> l.i, ok |-> TRUE]

parsePrerelease(raw, start) ==
  prereleaseEnd(raw, start, prereleaseLoop(raw, start, start))

RECURSIVE buildLoop(_, _, _)
\* the scanning loop of parseBuild
buildLoop(raw, i, partStart) ==
  IF i < Len(raw)
  THEN LET ch == At(raw, i) IN
       IF ~(isIdentChar(ch) \/ ch = ".")
       THEN [ok |-> FALSE, i |-> i, partStart |-> partStart]
       ELSE IF ch = "."
       THEN IF partStart = i
            THEN [ok |-> FALSE, i |-> i, partStart |-> partStart]
            ELSE buildLoop(raw, i + 1, i + 1)
       ELSE buildLoop(raw, i + 1, partStart)
  ELSE [ok |-> TRUE, i |-> i, partStart |-> partStart]

\* parseBuild after its loop, which ended in l
buildEnd(raw, start, l) ==
  IF ~l.ok THEN [start |-> 0, end |-> 0, next |-> 0, ok |-> FALSE]
  ELSE IF l.partStart = l.i
  THEN [start |-> 0, end |-> 0, next |-> 0, ok |-> FALSE]
  ELSE [start |-> start, end |-> l.i, next |-> l.i, ok |-> TRUE]

parseBuild(raw, start) ==
  buildEnd(raw, start, buildLoop(raw, start, start))

----------------------------------------------------------------------------
(* Parser *)

\* a failure return of Parse
parseFail(orig) == [v |-> Invalid(orig), ok |-> FALSE]

\* Parse, the end: nothing must remain after index i
parseEnd(orig, raw, maj, min, pat, pre, build, flags, i) ==
  IF i # Len(raw) THEN parseFail(orig)
  ELSE [v  |-> [Original |-> orig, Prerelease |-> pre, Build |-> build,
                Major |-> maj, Minor |-> min, Patch |-> pat,
                Flags |-> flags, Valid |-> TRUE],
        ok |-> TRUE]

\* Parse, the build: q is the result of parseBuild after the '+'
parseBuildResult(orig, raw, vOffset, maj, min, pat, pre, flags, q) ==
  IF ~q.ok THEN parseFail(orig)
  ELSE parseEnd(orig, raw, maj, min, pat, pre,
                Slice(orig, vOffset + q.start, vOffset + q.end),
                flags \cup {FlagHasBuild}, q.next)

\* Parse, the optional build at index i
parseBuildSegment(orig, raw, vOffset, maj, min, pat, pre, flags, i) ==
  IF i < Len(raw) /\ At(raw, i) = "+"
  THEN parseBuildResult(orig, raw, vOffset, maj, min, pat, pre, flags,
                        parseBuild(raw, i + 1))
  ELSE parseEnd(orig, raw, maj, min, pat, pre, <<>>, flags, i)

\* Parse, the prerelease: p is the result of parsePrerelease after the '-'
parsePrereleaseResult(orig, raw, vOffset, maj, min, pat, flags, p) ==
  IF ~p.ok THEN parseFail(orig)
  ELSE parseBuildSegment(orig, raw, vOffset, maj, min, pat,
                         Slice(orig, vOffset + p.start, vOffset + p.end),
                         flags \cup {FlagHasPre}, p.next)

\* Parse, the optional prerelease at index i, the index after the core
parseSegments(orig, raw, vOffset, maj, min, pat, flags, i) ==
  IF i < Len(raw) /\ At(raw, i) = "-"
  THEN parsePrereleaseResult(orig, raw, vOffset, maj, min, pat, flags,
                             parsePrerelease(raw, i + 1))
  ELSE parseBuildSegment(orig, raw, vOffset, maj, min, pat, <<>>, flags, i)

\* mutation: the test is dropped
shorthandWithSegment_Off(raw, i, flags) == FALSE

\* the test before the segments: '-' or '+' after a shorthand core
shorthandWithSegment(raw, i, flags) ==
  i < Len(raw) /\ (At(raw, i) = "-" \/ At(raw, i) = "+")
    /\ FlagHasPatch \notin flags

\* Parse from the end of the core on
parseAfterCore(orig, raw, vOffset, maj, min, pat, flags, i) ==
  IF shorthandWithSegment(raw, i, flags) THEN parseFail(orig)
  ELSE parseSegments(orig, raw, vOffset, maj, min, pat, flags, i)

\* Parse, the patch: pp is the result of parseInt after the second '.'
parsePatchResult(orig, raw, vOffset, maj, min, flags, pp) ==
  IF ~pp.ok THEN parseFail(orig)
  ELSE parseAfterCore(orig, raw, vOffset, maj, min, pp.val,
                      flags \cup {FlagHasPatch}, pp.next)

\* Parse, the optional patch at index i, the index after minor
parsePatch(orig, raw, vOffset, maj, min, flags, i) ==
  IF i < Len(raw) /\ At(raw, i) = "."
  THEN parsePatchResult(orig, raw, vOffset, maj, min, flags,
                        parseInt(raw, i + 1))
  ELSE parseAfterCore(orig, raw, vOffset, maj, min, 0, flags, i)

\* Parse, the minor: mm is the result of parseInt after the first '.'
parseMinorResult(orig, raw, vOffset, maj, flags, mm) ==
  IF ~mm.ok THEN parseFail(orig)
  ELSE parsePatch(orig, raw, vOffset, maj, mm.val,
                  flags \cup {FlagHasMinor}, mm.next)

\* Parse, the optional minor at index i, the index after major
parseMinor(orig, raw, vOffset, maj, flags, i) ==
  IF i < Len(raw) /\ At(raw, i) = "."
  THEN parseMinorResult(orig, raw, vOffset, maj, flags, parseInt(raw, i + 1))
  ELSE parseAfterCore(orig, raw, vOffset, maj, 0, 0, flags, i)

\* Parse, the major: mj is the result of parseInt at the start of raw
parseMajorResult(orig, raw, vOffset, flags, mj) ==
  IF ~mj.ok THEN parseFail(orig)
  ELSE parseMinor(orig, raw, vOffset, mj.val, flags \cup {FlagHasMajor},
                  mj.next)

\* Parse after the marker: raw is orig[vOffset:]
parseRaw(orig, raw, vOffset, flags) ==
  parseMajorResult(orig, raw, vOffset, flags, parseInt(raw, 0))

\* Parse returns the pair (v, ok)
Parse(orig) ==
  IF orig = <<>> THEN parseFail(orig)
  ELSE IF At(orig, 0) = "v" \/ At(orig, 0) = "V"
  THEN IF Len(orig) = 1 THEN parseFail(orig)
       ELSE parseRaw(orig, From(orig, 1), 1, {FlagHasV})
  ELSE parseRaw(orig, From(orig, 0), 0, {})

----------------------------------------------------------------------------
(* Presence accessors *)

\* mutation: no look at Original when the flag is clear
HasV_FlagOnly(x) == FlagHasV \in x.Flags

HasV(x) ==
  IF FlagHasV \in x.Flags THEN TRUE
  ELSE Len(x.Original) > 0
         /\ (At(x.Original, 0) = "v" \/ At(x.Original, 0) = "V")

IsRelease(x) == x.Valid /\ x.Flags \cap {FlagHasPre, FlagHasBuild} = {}

HasMajor(x) == x.Valid /\ FlagHasMajor \in x.Flags

HasMinor(x) == x.Valid /\ FlagHasMinor \in x.Flags

HasPatch(x) == x.Valid /\ FlagHasPatch \in x.Flags

HasPre(x) == x.Valid /\ FlagHasPre \in x.Flags

HasBuild(x) == x.Valid /\ FlagHasBuild \in x.Flags

----------------------------------------------------------------------------
(* Printer *)

PrintPrefixV    == "PrintPrefixV"
PrintPrefixNoV  == "PrintPrefixNoV"
PrintMajor      == "PrintMajor"
PrintMinor      == "PrintMinor"
PrintPatch      == "PrintPatch"
PrintPrerelease == "PrintPrerelease"
PrintBuild      == "PrintBuild"

PrintMaskRelease   == {PrintMajor, PrintMinor, PrintPatch}
PrintMaskCanonical == {PrintPrefixV} \cup PrintMaskRelease \cup {PrintPrerelease}
PrintMaskSemVer    ==
  {PrintPrefixNoV} \cup PrintMaskRelease \cup {PrintPrerelease, PrintBuild}
PrintMaskDefault   == PrintMaskRelease \cup {PrintPrerelease, PrintBuild}

RECURSIVE writeIntLoop(_, _)
\* the digit loop of writeInt: buf is filled from its end
writeIntLoop(u, buf) ==
  IF u > 0 THEN writeIntLoop(u \div 10, <<DigitChar(u % 10)>> \o buf)
  ELSE buf

\* mutation: no fast path for zero
writeInt_NoZero(x) == writeIntLoop(x, <<>>)

writeInt(x) == IF x = 0 THEN <<"0">> ELSE writeIntLoop(x, <<>>)

\* mutation: a requested patch or minor does not bring the components before
\* it
SemverPrint_NoPromotion(x, mask) ==
  IF ~x.Valid THEN <<>>
  ELSE
  LET pfx == IF PrintPrefixV \in mask THEN <<"v">>
             ELSE IF PrintPrefixNoV \in mask THEN <<>>
             ELSE IF HasV(x) /\ Len(x.Original) > 0
                  THEN <<At(x.Original, 0)>>
                  ELSE <<>>
      reqMajor0 == PrintMajor \in mask
      reqMinor0 == PrintMinor \in mask
      reqPatch  == PrintPatch \in mask
      maj == x.Major
      min0 == IF reqMinor0 /\ FlagHasMinor \notin x.Flags THEN 0 ELSE x.Minor
      pat == IF reqPatch /\ FlagHasPatch \notin x.Flags THEN 0 ELSE x.Patch
      reqMinor == reqMinor0
      min == IF reqPatch /\ ~reqMinor0 /\ FlagHasMinor \notin x.Flags
             THEN 0 ELSE min0
      reqMajor == reqMajor0
      withPre == PrintPrerelease \in mask /\ FlagHasPre \in x.Flags
                   /\ x.Prerelease # <<>>
      withBuild == PrintBuild \in mask /\ FlagHasBuild \in x.Flags
                     /\ x.Build # <<>>
  IN pfx
       \o (IF reqMajor THEN writeInt(maj) ELSE <<>>)
       \o (IF reqMinor THEN <<".">> \o writeInt(min) ELSE <<>>)
       \o (IF reqPatch THEN <<".">> \o writeInt(pat) ELSE <<>>)
       \o (IF withPre THEN <<"-">> \o x.Prerelease ELSE <<>>)
       \o (IF withBuild THEN <<"+">> \o x.Build ELSE <<>>)

\* mutation: the segments are printed by their text alone
SemverPrint_TextOnly(x, mask) ==
  IF ~x.Valid THEN <<>>
  ELSE
  LET pfx == IF PrintPrefixV \in mask THEN <<"v">>
             ELSE IF PrintPrefixNoV \in mask THEN <<>>
             ELSE IF HasV(x) /\ Len(x.Original) > 0
                  THEN <<At(x.Original, 0)>>
                  ELSE <<>>
      reqMajor0 == PrintMajor \in mask
      reqMinor0 == PrintMinor \in mask
      reqPatch  == PrintPatch \in mask
      maj == x.Major
      min0 == IF reqMinor0 /\ FlagHasMinor \notin x.Flags THEN 0 ELSE x.Minor
      pat == IF reqPatch /\ FlagHasPatch \notin x.Flags THEN 0 ELSE x.Patch
      reqMinor == reqMinor0 \/ reqPatch
      min == IF reqPatch /\ ~reqMinor0 /\ FlagHasMinor \notin x.Flags
             THEN 0 ELSE min0
      reqMajor == reqMajor0 \/ reqMinor
      withPre == PrintPrerelease \in mask /\ x.Prerelease # <<>>
      withBuild == PrintBuild \in mask /\ x.Build # <<>>
  IN pfx
       \o (IF reqMajor THEN writeInt(maj) ELSE <<>>)
       \o (IF reqMinor THEN <<".">> \o writeInt(min) ELSE <<>>)
       \o (IF reqPatch THEN <<".">> \o writeInt(pat) ELSE <<>>)
       \o (IF withPre THEN <<"-">> \o x.Prerelease ELSE <<>>)
       \o (IF withBuild THEN <<"+">> \o x.Build ELSE <<>>)

SemverPrint(x, mask) ==
  IF ~x.Valid THEN <<>>
  ELSE
  LET pfx == IF PrintPrefixV \in mask THEN <<"v">>
             ELSE IF PrintPrefixNoV \in mask THEN <<>>
             ELSE IF HasV(x) /\ Len(x.Original) > 0
                  THEN <<At(x.Original, 0)>>
                  ELSE <<>>
      reqMajor0 == PrintMajor \in mask
      reqMinor0 == PrintMinor \in mask
      reqPatch  == PrintPatch \in mask
      maj == x.Major
      min0 == IF reqMinor0 /\ FlagHasMinor \notin x.Flags THEN 0 ELSE x.Minor
      pat == IF reqPatch /\ FlagHasPatch \notin x.Flags THEN 0 ELSE x.Patch
      reqMinor == reqMinor0 \/ reqPatch
      min == IF reqPatch /\ ~reqMinor0 /\ FlagHasMinor \notin x.Flags
             THEN 0 ELSE min0
      reqMajor == reqMajor0 \/ reqMinor
      withPre == PrintPrerelease \in mask /\ FlagHasPre \in x.Flags
                   /\ x.Prerelease # <<>>
      withBuild == PrintBuild \in mask /\ FlagHasBuild \in x.Flags
                     /\ x.Build # <<>>
  IN pfx
       \o (IF reqMajor THEN writeInt(maj) ELSE <<>>)
       \o (IF reqMinor THEN <<".">> \o writeInt(min) ELSE <<>>)
       \o (IF reqPatch THEN <<".">> \o writeInt(pat) ELSE <<>>)
       \o (IF withPre THEN <<"-">> \o x.Prerelease ELSE <<>>)
       \o (IF withBuild THEN <<"+">> \o x.Build ELSE <<>>)

\* mutation: the canonical rendering keeps the marker of the input
Canonical_KeepMarker(x) ==
  SemverPrint(x, PrintMaskRelease \cup {PrintPrerelease})

Canonical(x) == SemverPrint(x, PrintMaskCanonical)

SemVer(x) == SemverPrint(x, PrintMaskSemVer)

\* mutation: preserve = TRUE keeps the marker of the input and FALSE forces
\* the lowercase marker
Full_Swapped(x, preserve) ==
  SemverPrint(x, IF preserve THEN PrintMaskDefault
                 ELSE PrintMaskDefault \cup {PrintPrefixV})

\* preserve = TRUE sets PrintPrefixV; FALSE leaves both prefix flags unset
Full(x, preserve) ==
  SemverPrint(x, IF preserve THEN PrintMaskDefault \cup {PrintPrefixV}
                 ELSE PrintMaskDefault)

ReleaseStr(x) == SemverPrint(x, {PrintPrefixV} \cup PrintMaskRelease)

----------------------------------------------------------------------------
(* Mutators *)

MinInt == -(2 ^ (IntBits - 1))

\* x++ on the host int: the largest int wraps to the smallest
Inc(x) == IF x = MaxInt THEN MinInt ELSE x + 1

\* mutation: the failure value is the receiver marked invalid
mutateFail_KeepFields(x) == [v |-> [x EXCEPT !.Valid = FALSE], ok |-> FALSE]

\* the failure value of every mutator: Semver{Original: v.Original}, false
mutateFail(x) == [v |-> Invalid(x.Original), ok |-> FALSE]

\* nv.Original = nv.Full(false)
refreshOriginal(x) == [x EXCEPT !.Original = Full(x, FALSE)]

\* the flags after a bump
bumpFlags(flags) ==
  (flags \cup {FlagHasMajor, FlagHasMinor, FlagHasPatch})
    \ {FlagHasPre, FlagHasBuild}

BumpPatch(x) ==
  IF ~x.Valid THEN mutateFail(x)
  ELSE [v |-> refreshOriginal(
                [x EXCEPT !.Patch = Inc(@),
                          !.Prerelease = <<>>, !.Build = <<>>,
                          !.Flags = bumpFlags(@)]),
        ok |-> TRUE]

BumpMinor(x) ==
  IF ~x.Valid THEN mutateFail(x)
  ELSE [v |-> refreshOriginal(
                [x EXCEPT !.Minor = Inc(@), !.Patch = 0,
                          !.Prerelease = <<>>, !.Build = <<>>,
                          !.Flags = bumpFlags(@)]),
        ok |-> TRUE]

BumpMajor(x) ==
  IF ~x.Valid THEN mutateFail(x)
  ELSE [v |-> refreshOriginal(
                [x EXCEPT !.Major = Inc(@), !.Minor = 0, !.Patch = 0,
                          !.Prerelease = <<>>, !.Build = <<>>,
                          !.Flags = bumpFlags(@)]),
        ok |-> TRUE]

\* the check of WithPre on its argument
prereleaseArgOk(pre) ==
  \/ pre = <<>>
  \/ /\ parsePrerelease(<<"-">> \o pre, 1).ok
     /\ parsePrerelease(<<"-">> \o pre, 1).next = Len(pre) + 1

\* the check of WithBuild on its argument
buildArgOk(build) ==
  \/ build = <<>>
  \/ /\ parseBuild(<<"+">> \o build, 1).ok
     /\ parseBuild(<<"+">> \o build, 1).next = Len(build) + 1

\* a shorthand receiver gets its minor and patch zeroed and marked present
normalizeCore(x) ==
  [x EXCEPT !.Minor = IF FlagHasMinor \notin x.Flags THEN 0 ELSE @,
            !.Patch = IF FlagHasPatch \notin x.Flags THEN 0 ELSE @,
            !.Flags = @ \cup {FlagHasMinor, FlagHasPatch}]

\* mutation: WithPre takes any text
WithPre_Unchecked(x, pre) ==
  IF ~x.Valid THEN mutateFail(x)
  ELSE [v |-> refreshOriginal(
                [normalizeCore(x) EXCEPT
                   !.Prerelease = pre,
                   !.Flags = IF pre # <<>> THEN @ \cup {FlagHasPre}
                             ELSE @ \ {FlagHasPre}]),
        ok |-> TRUE]

WithPre(x, pre) ==
  IF ~x.Valid THEN mutateFail(x)
  ELSE IF ~prereleaseArgOk(pre) THEN mutateFail(x)
  ELSE [v |-> refreshOriginal(
                [normalizeCore(x) EXCEPT
                   !.Prerelease = pre,
                   !.Flags = IF pre # <<>> THEN @ \cup {FlagHasPre}
                             ELSE @ \ {FlagHasPre}]),
        ok |-> TRUE]

\* mutation: WithBuild leaves a shorthand core as it is
WithBuild_NoNormalize(x, build) ==
  IF ~x.Valid THEN mutateFail(x)
  ELSE IF ~buildArgOk(build) THEN mutateFail(x)
  ELSE [v |-> refreshOriginal(
                [x EXCEPT
                   !.Build = build,
                   !.Flags = IF build # <<>> THEN @ \cup {FlagHasBuild}
                             ELSE @ \ {FlagHasBuild}]),
        ok |-> TRUE]

WithBuild(x, build) ==
  IF ~x.Valid THEN mutateFail(x)
  ELSE IF ~buildArgOk(build) THEN mutateFail(x)
  ELSE [v |-> refreshOriginal(
                [normalizeCore(x) EXCEPT
                   !.Build = build,
                   !.Flags = IF build # <<>> THEN @ \cup {FlagHasBuild}
                             ELSE @ \ {FlagHasBuild}]),
        ok |-> TRUE]

\* mutation: StripPre clears the text and leaves the flag
StripPre_KeepFlag(x) ==
  IF ~x.Valid THEN mutateFail(x)
  ELSE [v |-> refreshOriginal([x EXCEPT !.Prerelease = <<>>]),
        ok |-> TRUE]

StripPre(x) ==
  IF ~x.Valid THEN mutateFail(x)
  ELSE [v |-> refreshOriginal(
                [x EXCEPT !.Prerelease = <<>>, !.Flags = @ \ {FlagHasPre}]),
        ok |-> TRUE]

\* mutation: StripBuild clears the text and leaves the flag
StripBuild_KeepFlag(x) ==
  IF ~x.Valid THEN mutateFail(x)
  ELSE [v |-> refreshOriginal([x EXCEPT !.Build = <<>>]),
        ok |-> TRUE]

\* mutation: StripBuild leaves Original as it was
StripBuild_KeepOriginal(x) ==
  IF ~x.Valid THEN mutateFail(x)
  ELSE [v |-> [x EXCEPT !.Build = <<>>, !.Flags = @ \ {FlagHasBuild}],
        ok |-> TRUE]

StripBuild(x) ==
  IF ~x.Valid THEN mutateFail(x)
  ELSE [v |-> refreshOriginal(
                [x EXCEPT !.Build = <<>>, !.Flags = @ \ {FlagHasBuild}]),
        ok |-> TRUE]

RECURSIVE Split(_, _, _)
\* strings.Split(x, "."): cur is the part being read, parts those before it
Split(x, parts, cur) ==
  IF x = <<>> THEN Append(parts, cur)
  ELSE IF Head(x) = "." THEN Split(Tail(x), Append(parts, cur), <<>>)
  ELSE Split(Tail(x), parts, Append(cur, Head(x)))

RECURSIVE Join(_)
\* strings.Join(parts, ".")
Join(parts) ==
  IF Len(parts) = 0 THEN <<>>
  ELSE IF Len(parts) = 1 THEN parts[1]
  ELSE parts[1] \o <<".">> \o Join(Tail(parts))

\* mutation: a digit 9 is reset and the carry is lost
incrementTail_NoCarry(d, i) ==
  IF i < 0 THEN <<"1">> \o d
  ELSE IF At(d, i) = "9" THEN [d EXCEPT ![i + 1] = "0"]
  ELSE [d EXCEPT ![i + 1] = DigitChar(DigitVal(@) + 1)]

RECURSIVE incrementTail(_, _)
\* the carry loop of NextPrerelease on the digits d, at 0-based index i with
\* the carry still 1; past the first digit a "1" is put in front
incrementTail(d, i) ==
  IF i < 0 THEN <<"1">> \o d
  ELSE IF At(d, i) = "9" THEN incrementTail([d EXCEPT ![i + 1] = "0"], i - 1)
  ELSE [d EXCEPT ![i + 1] = DigitChar(DigitVal(@) + 1)]

\* mutation: an identifier that is no number is replaced by "1"
nextParts_Replace(parts) ==
  IF isNum(parts[Len(parts)])
  THEN [parts EXCEPT ![Len(parts)] = incrementTail(@, Len(@) - 1)]
  ELSE [parts EXCEPT ![Len(parts)] = <<"1">>]

\* the parts of the next prerelease
nextParts(parts) ==
  IF isNum(parts[Len(parts)])
  THEN [parts EXCEPT ![Len(parts)] = incrementTail(@, Len(@) - 1)]
  ELSE Append(parts, <<"1">>)

NextPrerelease(x, base) ==
  IF ~x.Valid THEN mutateFail(x)
  ELSE IF x.Prerelease = <<>>
  THEN [v |-> [x EXCEPT
                 !.Prerelease = (IF base = <<>> THEN <<"r", "c">> ELSE base)
                                  \o <<".", "1">>,
                 !.Flags = @ \cup {FlagHasPre}],
        ok |-> TRUE]
  ELSE [v |-> refreshOriginal(
                [x EXCEPT
                   !.Prerelease = Join(nextParts(Split(@, <<>>, <<>>))),
                   !.Flags = @ \cup {FlagHasPre}]),
        ok |-> TRUE]

----------------------------------------------------------------------------
(* Comparator *)

RECURSIVE DotIndex(_, _)
\* the index of the first '.' at or after i, or the length if there is none
DotIndex(x, i) ==
  IF i < Len(x) /\ At(x, i) # "." THEN DotIndex(x, i + 1) ELSE i

nextIdent(x) ==
  LET i == DotIndex(x, 0) IN
  IF i >= Len(x) THEN [dx |-> x, rest |-> <<>>]
  ELSE [dx |-> Slice(x, 0, i), rest |-> From(x, i)]

\* mutation: numeric identifiers are compared as text only
compareIdent_NoLength(dx, dy) ==
  LET ix == isNum(dx)
      iy == isNum(dy)
  IN
  IF ix # iy THEN (IF ix THEN -1 ELSE 1)
  ELSE IF StrLess(dx, dy) THEN -1
  ELSE 1

\* the outcome for the first pair of identifiers that differ
compareIdent(dx, dy) ==
  LET ix == isNum(dx)
      iy == isNum(dy)
  IN
  IF ix # iy THEN (IF ix THEN -1 ELSE 1)
  ELSE IF ix /\ Len(dx) < Len(dy) THEN -1
  ELSE IF ix /\ Len(dx) > Len(dy) THEN 1
  ELSE IF StrLess(dx, dy) THEN -1
  ELSE 1

RECURSIVE comparePrereleaseLoop(_, _)
\* the loop of comparePrerelease; x and y start with their separator
comparePrereleaseLoop(x, y) ==
  IF x # <<>> /\ y # <<>>
  THEN LET nx == nextIdent(From(x, 1))
           ny == nextIdent(From(y, 1))
       IN
       IF nx.dx # ny.dx THEN compareIdent(nx.dx, ny.dx)
       ELSE comparePrereleaseLoop(nx.rest, ny.rest)
  ELSE IF x = <<>> THEN -1 ELSE 1

comparePrerelease(x, y) ==
  IF x = y THEN 0
  ELSE IF x = <<>> THEN 1
  ELSE IF y = <<>> THEN -1
  ELSE comparePrereleaseLoop(<<"-">> \o x, <<"-">> \o y)

\* mutation: the patch numbers are not compared
compareCore_NoPatch(x, y) ==
  IF x.Major # y.Major THEN (IF x.Major < y.Major THEN -1 ELSE 1)
  ELSE IF x.Minor # y.Minor THEN (IF x.Minor < y.Minor THEN -1 ELSE 1)
  ELSE 0

\* the comparison of the numeric cores; 0 when they are equal
compareCore(x, y) ==
  IF x.Major # y.Major THEN (IF x.Major < y.Major THEN -1 ELSE 1)
  ELSE IF x.Minor # y.Minor THEN (IF x.Minor < y.Minor THEN -1 ELSE 1)
  ELSE IF x.Patch # y.Patch THEN (IF x.Patch < y.Patch THEN -1 ELSE 1)
  ELSE 0

\* mutation: a prerelease against a release gives +1 in both directions
comparePre_Swapped(x, y) ==
  LET vHasPre == FlagHasPre \in x.Flags
      wHasPre == FlagHasPre \in y.Flags
  IN
  IF ~vHasPre /\ ~wHasPre THEN 0
  ELSE IF ~vHasPre /\ wHasPre THEN 1
  ELSE IF vHasPre /\ ~wHasPre THEN 1
  ELSE comparePrerelease(x.Prerelease, y.Prerelease)

\* the comparison of the prereleases of two versions with equal cores
comparePre(x, y) ==
  LET vHasPre == FlagHasPre \in x.Flags
      wHasPre == FlagHasPre \in y.Flags
  IN
  IF ~vHasPre /\ ~wHasPre THEN 0
  ELSE IF ~vHasPre /\ wHasPre THEN 1
  ELSE IF vHasPre /\ ~wHasPre THEN -1
  ELSE comparePrerelease(x.Prerelease, y.Prerelease)

\* mutation: equal versions are ordered by their build metadata
Compare_Build(x, y) ==
  IF ~x.Valid /\ ~y.Valid THEN 0
  ELSE IF ~x.Valid THEN -1
  ELSE IF ~y.Valid THEN 1
  ELSE IF compareCore(x, y) # 0 THEN compareCore(x, y)
  ELSE IF comparePre(x, y) # 0 THEN comparePre(x, y)
  ELSE IF x.Build = y.Build THEN 0
  ELSE IF StrLess(x.Build, y.Build) THEN -1
  ELSE 1

Compare(x, y) ==
  IF ~x.Valid /\ ~y.Valid THEN 0
  ELSE IF ~x.Valid THEN -1
  ELSE IF ~y.Valid THEN 1
  ELSE IF compareCore(x, y) # 0 THEN compareCore(x, y)
  ELSE comparePre(x, y)

----------------------------------------------------------------------------
(* List *)

\* mutation: no tie-break on Original
Less_NoTie(x, y) == Compare(x, y) < 0

\* List.Less on the elements x = ls[i] and y = ls[j]
Less(x, y) ==
  LET cmp == Compare(x, y) IN
  IF cmp # 0 THEN cmp < 0
  ELSE LET ai == IF x.Original = <<>> THEN Canonical(x) ELSE x.Original
           aj == IF y.Original = <<>> THEN Canonical(y) ELSE y.Original
       IN StrLess(ai, aj)

\* the orderings of the elements of l
Orderings(l) ==
  {[i \in 1..Len(l) |-> l[f[i]]] :
     f \in {g \in [1..Len(l) -> 1..Len(l)] :
              \A i, j \in 1..Len(l) : i # j => g[i] # g[j]}}

\* sort.Sort leaves the elements in an order in which no later element is
\* Less than an earlier one; it is not stable
SortResults(l) ==
  {p \in Orderings(l) :
     \A i, j \in 1..Len(p) : i < j => ~Less(p[j], p[i])}

----------------------------------------------------------------------------
(* Inputs *)

\* the strings over the characters cs of length at most n
Strs(cs, n) == UNION {[1..k -> cs] : k \in 0..n}

Alphabet == {"v", "0", "1", "9", ".", "-", "+", "a", "!"}

\* a run of n copies of the digit d
Run(d, n) == [i \in 1..n |-> d]

Prefixes ==
  { <<>>,
    <<"1", ".", "0", ".", "0">>,
    <<"V", "1", ".", "0">>,
    <<"1", ".", "2">>,
    <<"1", ".", "0", ".", "0", "-", "a">>,
    <<"0", ".", "1", ".", "9", "+", "0">>,
    Run("1", MaxDigits) }

Inputs == {p \o x : p \in Prefixes, x \in Strs(Alphabet, MaxLen)}

Nil == Invalid(<<>>)

parseIdle ==
  /\ s = <<>> /\ v = Nil /\ ok = FALSE /\ canon = <<>> /\ w = Nil
  /\ out = <<>> /\ pmask = {}
cmpIdle   == a = Nil /\ b = Nil /\ c = Nil /\ r = <<>>
preIdle   == pa = <<>> /\ pb = <<>> /\ rp = 0
sortIdle  == ls0 = <<>> /\ ls = <<>> /\ alt = <<>>
mutIdle   ==
  rcv = Nil /\ nv = Nil /\ nok = FALSE /\ op = "" /\ arg = <<>> /\ depth = 0

----------------------------------------------------------------------------
(* Parsing an input and parsing its canonical rendering again *)

Init ==
  /\ pc = "start"
  /\ s \in Inputs
  /\ v = Nil /\ ok = FALSE /\ canon = <<>> /\ w = Nil /\ out = <<>>
  /\ pmask = {}
  /\ cmpIdle /\ preIdle /\ sortIdle /\ mutIdle

DoParse ==
  /\ pc = "start"
  /\ \E res \in {Parse(s)} : v' = res.v /\ ok' = res.ok
  /\ pc' = "parsed"
  /\ UNCHANGED <<s, canon, w, out, pmask, cmpVars, preVars, sortVars, mutVars>>

DoCanonical ==
  /\ pc = "parsed"
  /\ v.Valid
  /\ canon' = Canonical(v)
  /\ w' = Parse(canon').v
  /\ pc' = "reparsed"
  /\ UNCHANGED <<s, v, ok, out, pmask, cmpVars, preVars, sortVars, mutVars>>

\* the named renderings of the parsed value
DoRender ==
  /\ pc = "parsed"
  /\ out' = [fullForced |-> Full(v, TRUE), fullPreserved |-> Full(v, FALSE),
             semver |-> SemVer(v), canonical |-> Canonical(v),
             release |-> ReleaseStr(v)]
  /\ pc' = "rendered"
  /\ UNCHANGED <<s, v, ok, canon, w, pmask, cmpVars, preVars, sortVars,
                 mutVars>>

\* the presence accessors of the parsed value
DoFlags ==
  /\ pc = "parsed"
  /\ out' = [hasV |-> HasV(v), hasMajor |-> HasMajor(v),
             hasMinor |-> HasMinor(v), hasPatch |-> HasPatch(v),
             hasPre |-> HasPre(v), hasBuild |-> HasBuild(v),
             isRelease |-> IsRelease(v)]
  /\ pc' = "flagged"
  /\ UNCHANGED <<s, v, ok, canon, w, pmask, cmpVars, preVars, sortVars,
                 mutVars>>

Next == DoParse \/ DoCanonical \/ DoRender \/ DoFlags

Spec == Init /\ [][Next]_vars

----------------------------------------------------------------------------
(* Comparing three parsed versions *)

Core3(x, y, z) == <<x, ".", y, ".", z>>

CmpCores ==
  {Core3("1", "0", "0"), Core3("1", "0", "1"), Core3("1", "1", "0"),
   Core3("0", "1", "1")}

CmpTails ==
  {<<>>, <<"-", "a">>, <<"-", "a", "+", "b">>, <<"+", "b">>, <<"+", "a">>}

CmpPrereleases ==
  {<<"-", "1">>, <<"-", "9">>, <<"-", "1", "0">>, <<"-", "a", ".", "1">>,
   <<"-", "a", ".", "a">>, <<"-", "1", ".", "a">>, <<"-", "A">>,
   <<"-", "a", "-">>}

CmpInputs ==
  {x \o y : x \in CmpCores, y \in CmpTails}
    \cup {Core3("1", "0", "0") \o y : y \in CmpPrereleases}
    \cup {<<"0">>, <<"1">>, <<"1", ".", "0">>, <<"1", ".", "1">>}
    \cup {<<"v", "1">>, <<"v">> \o Core3("1", "0", "0"),
          <<"V">> \o Core3("1", "0", "0") \o <<"-", "a">>}
    \cup {<<>>, <<"a">>, <<"1", "-", "a">>}

CmpVersions == {Parse(x).v : x \in CmpInputs}

InitCompare ==
  /\ pc = "start"
  /\ a \in CmpVersions /\ b \in CmpVersions /\ c \in CmpVersions
  /\ r = <<>>
  /\ parseIdle /\ preIdle /\ sortIdle /\ mutIdle

DoCompare ==
  /\ pc = "start"
  /\ r' = [aa |-> Compare(a, a), ab |-> Compare(a, b), ba |-> Compare(b, a),
           bc |-> Compare(b, c), cb |-> Compare(c, b),
           ac |-> Compare(a, c), ca |-> Compare(c, a)]
  /\ pc' = "compared"
  /\ UNCHANGED <<a, b, c, parseVars, preVars, sortVars, mutVars>>

NextCompare == DoCompare

SpecCompare == InitCompare /\ [][NextCompare]_vars

----------------------------------------------------------------------------
(* Comparing two prerelease texts *)

PreAlphabet == {"0", "1", "a", "-", "."}

\* the ascending chain of the SemVer reference
RefChain ==
  << <<"a", "l", "p", "h", "a">>,
     <<"a", "l", "p", "h", "a", ".", "1">>,
     <<"a", "l", "p", "h", "a", ".", "b", "e", "t", "a">>,
     <<"b", "e", "t", "a">>,
     <<"b", "e", "t", "a", ".", "2">>,
     <<"b", "e", "t", "a", ".", "1", "1">>,
     <<"r", "c", ".", "1">> >>

\* a text that parsePrerelease accepts whole
IsPrereleaseInput(x) ==
  x # <<>> /\ parsePrerelease(x, 0).ok /\ parsePrerelease(x, 0).next = Len(x)

PreInputs ==
  {x \in Strs(PreAlphabet, MaxPreLen) : IsPrereleaseInput(x)}
    \cup {RefChain[i] : i \in DOMAIN RefChain}

InitPrerelease ==
  /\ pc = "start"
  /\ pa \in PreInputs /\ pb \in PreInputs
  /\ rp = 0
  /\ parseIdle /\ cmpIdle /\ sortIdle /\ mutIdle

DoComparePrerelease ==
  /\ pc = "start"
  /\ rp' = comparePrerelease(pa, pb)
  /\ pc' = "compared"
  /\ UNCHANGED <<pa, pb, parseVars, cmpVars, sortVars, mutVars>>

NextComparePrerelease == DoComparePrerelease

SpecPrerelease == InitPrerelease /\ [][NextComparePrerelease]_vars

----------------------------------------------------------------------------
(* Sorting a list *)

SortInputs ==
  {<<>>, <<"!">>, <<"1", "-", "a">>,
   <<"1">>, <<"1", ".", "0">>, Core3("1", "0", "0"),
   <<"v">> \o Core3("1", "0", "0"), Core3("1", "0", "0") \o <<"+", "b">>,
   Core3("1", "0", "0") \o <<"-", "a">>, Core3("0", "1", "1")}

SortVersions == {Parse(x).v : x \in SortInputs}

InitSort ==
  /\ pc = "start"
  /\ ls0 \in UNION {[1..n -> SortVersions] : n \in 0..MaxList}
  /\ ls = ls0
  /\ alt = ls0
  /\ parseIdle /\ cmpIdle /\ preIdle /\ mutIdle

\* another initial order of the same elements
Shuffle ==
  /\ pc = "start"
  /\ alt' \in Orderings(ls0)
  /\ pc' = "shuffled"
  /\ UNCHANGED <<ls0, ls, parseVars, cmpVars, preVars, mutVars>>

\* List.Sort on both orders
DoSort ==
  /\ pc = "shuffled"
  /\ ls' \in SortResults(ls)
  /\ alt' \in SortResults(alt)
  /\ pc' = "sorted"
  /\ UNCHANGED <<ls0, parseVars, cmpVars, preVars, mutVars>>

NextSort == Shuffle \/ DoSort

SpecSort == InitSort /\ [][NextSort]_vars

----------------------------------------------------------------------------
(* Calling mutators on a parsed version, each on the result of the last *)

\* the largest int, written out
MaxIntText == writeInt(MaxInt)

MutInputs ==
  {<<>>, <<"v">>, <<"1", "-", "a">>,
   <<"1">>, <<"v", "1", ".", "9">>, <<"V">> \o Core3("1", "0", "0"),
   Core3("1", "0", "9") \o <<"-", "a", ".", "9", "+", "b">>,
   Core3("1", "1", "1") \o <<"-", "9", "9">>,
   Core3("0", "0", "1") \o <<"+", "0">>,
   <<"0", ".", "0", ".">> \o MaxIntText,
   MaxIntText \o <<".">> \o MaxIntText}

PreArgs ==
  {<<>>, <<"a">>, <<"9">>, <<"0", "1">>, <<"a", ".", ".", "b">>,
   <<".", "a">>, <<"a", ".">>, <<"a", "+", "b">>, <<"r", "c", ".", "9">>}

BuildArgs ==
  {<<>>, <<"b">>, <<"0", "0", "1">>,
   <<"b", "a", "d", ".", ".", "s", "e", "g">>, <<"a", "+", "b">>}

BaseArgs == {<<>>, <<"r", "c">>, <<"a">>, <<"!">>}

InitMutate ==
  /\ pc = "start"
  /\ \E orig \in MutInputs : nv = Parse(orig).v /\ nok = Parse(orig).ok
  /\ rcv = Nil /\ op = "" /\ arg = <<>> /\ depth = 0
  /\ parseIdle /\ cmpIdle /\ preIdle /\ sortIdle

\* a call of the mutator name with the argument t and the result res; the
\* receiver is the result of the call before
Call(name, t, res) ==
  /\ rcv' = nv
  /\ nv' = res.v
  /\ nok' = res.ok
  /\ op' = name
  /\ arg' = t
  /\ depth' = depth + 1
  /\ pc' = "called"
  /\ UNCHANGED <<parseVars, cmpVars, preVars, sortVars>>

DoBumpPatch ==
  /\ depth < MaxCalls
  /\ Call("BumpPatch", <<>>, BumpPatch(nv))

DoBumpMinor ==
  /\ depth < MaxCalls
  /\ Call("BumpMinor", <<>>, BumpMinor(nv))

DoBumpMajor ==
  /\ depth < MaxCalls
  /\ Call("BumpMajor", <<>>, BumpMajor(nv))

DoWithPre ==
  /\ depth < MaxCalls
  /\ \E t \in PreArgs : Call("WithPre", t, WithPre(nv, t))

DoWithBuild ==
  /\ depth < MaxCalls
  /\ \E t \in BuildArgs : Call("WithBuild", t, WithBuild(nv, t))

DoStripPre ==
  /\ depth < MaxCalls
  /\ Call("StripPre", <<>>, StripPre(nv))

DoStripBuild ==
  /\ depth < MaxCalls
  /\ Call("StripBuild", <<>>, StripBuild(nv))

DoNextPrerelease ==
  /\ depth < MaxCalls
  /\ \E t \in BaseArgs : Call("NextPrerelease", t, NextPrerelease(nv, t))

NextMutate ==
  \/ DoBumpPatch \/ DoBumpMinor \/ DoBumpMajor
  \/ DoWithPre \/ DoWithBuild
  \/ DoStripPre \/ DoStripBuild
  \/ DoNextPrerelease

SpecMutate == InitMutate /\ [][NextMutate]_vars

----------------------------------------------------------------------------
(* The two strips in both orders, and each of them twice *)

\* sb and sp are the results of StripBuild and of StripPre on one receiver;
\* the second calls are made on the values that the first ones returned
StripOrders(sb, sp) ==
  [build |-> sb,
   pre |-> sp,
   buildPre |-> StripPre(sb.v),
   preBuild |-> StripBuild(sp.v),
   buildTwice |-> StripBuild(sb.v),
   preTwice |-> StripPre(sp.v)]

DoStripOrders ==
  /\ pc \in {"start", "called"}
  /\ out' = StripOrders(StripBuild(nv), StripPre(nv))
  /\ pc' = "stripped"
  /\ UNCHANGED <<s, v, ok, canon, w, pmask, cmpVars, preVars, sortVars,
                 mutVars>>

NextStrip == NextMutate \/ DoStripOrders

SpecStrip == InitMutate /\ [][NextStrip]_vars

----------------------------------------------------------------------------
(* Setting the prerelease or the build of a parsed version to any text *)

ArgAlphabet == {"0", "1", "a", ".", "+", "-"}

\* texts that WithPre must refuse
BadPreExamples ==
  {<<"0", "1">>, <<"a", ".", ".", "b">>, <<".", "a">>, <<"a", ".">>,
   <<"a", "+", "b">>}

\* a text that WithBuild must take and one that it must refuse
GoodBuildExample == <<"0", "0", "1">>

BadBuildExample == <<"b", "a", "d", ".", ".", "s", "e", "g">>

WithArgs ==
  Strs(ArgAlphabet, MaxArgLen) \cup BadPreExamples
    \cup {GoodBuildExample, BadBuildExample}

WithInputs ==
  {<<"1">>, Core3("1", "0", "0"),
   <<"v">> \o Core3("1", "0", "1") \o <<"-", "a", "+", "b">>}

InitWith ==
  /\ pc = "start"
  /\ \E orig \in WithInputs : rcv = Parse(orig).v
  /\ arg \in WithArgs
  /\ nv = Nil /\ nok = FALSE /\ op = "" /\ depth = 0
  /\ parseIdle /\ cmpIdle /\ preIdle /\ sortIdle

TryWithPre ==
  /\ pc = "start"
  /\ nv' = WithPre(rcv, arg).v
  /\ nok' = WithPre(rcv, arg).ok
  /\ op' = "WithPre"
  /\ pc' = "called"
  /\ UNCHANGED <<rcv, arg, depth, parseVars, cmpVars, preVars, sortVars>>

TryWithBuild ==
  /\ pc = "start"
  /\ nv' = WithBuild(rcv, arg).v
  /\ nok' = WithBuild(rcv, arg).ok
  /\ op' = "WithBuild"
  /\ pc' = "called"
  /\ UNCHANGED <<rcv, arg, depth, parseVars, cmpVars, preVars, sortVars>>

NextWith == TryWithPre \/ TryWithBuild

SpecWith == InitWith /\ [][NextWith]_vars

----------------------------------------------------------------------------
(* Printing a version under any mask *)

AllPrintFlags ==
  {PrintPrefixV, PrintPrefixNoV, PrintMajor, PrintMinor, PrintPatch,
   PrintPrerelease, PrintBuild}

PrintInputs ==
  {<<"!">>, <<"1">>, <<"V", "1">>, <<"v", "1", ".", "9">>,
   Core3("0", "1", "9"),
   <<"v">> \o Core3("1", "0", "1") \o <<"-", "a", "-", "b">>,
   Core3("1", "0", "0") \o <<"+", "a", "-", "b">>,
   <<"V">> \o Core3("1", "1", "0") \o <<"-", "a", "+", "b">>}

\* the value x as a caller can write it: the segment flags are set apart from
\* the segment texts
Rebuilt(x) ==
  {[x EXCEPT !.Flags = (@ \ {FlagHasPre, FlagHasBuild}) \cup f] :
     f \in SUBSET {FlagHasPre, FlagHasBuild}}

PrintVersions == UNION {Rebuilt(Parse(x).v) : x \in PrintInputs}

InitPrint ==
  /\ pc = "start"
  /\ v \in PrintVersions
  /\ pmask \in SUBSET AllPrintFlags
  /\ s = <<>> /\ ok = FALSE /\ canon = <<>> /\ w = Nil /\ out = <<>>
  /\ cmpIdle /\ preIdle /\ sortIdle /\ mutIdle

DoPrint ==
  /\ pc = "start"
  /\ out' = SemverPrint(v, pmask)
  /\ pc' = "printed"
  /\ UNCHANGED <<s, v, ok, canon, w, pmask, cmpVars, preVars, sortVars,
                 mutVars>>

NextPrint == DoPrint

SpecPrint == InitPrint /\ [][NextPrint]_vars

----------------------------------------------------------------------------
(* The grammar, stated on the text and without the scanner *)

IdentChars == Digits \cup Letters \cup {"-"}

Range(f) == {f[i] : i \in DOMAIN f}

\* the positions of the character ch in x
Positions(x, ch) == {i \in 1..Len(x) : x[i] = ch}

\* the dot-separated fields of x, in order (one empty field for the empty text)
Fields(x) ==
  LET dots == Positions(x, ".")
      n    == Cardinality(dots)
      \* the k-th dot, 1 <= k <= n; 0 and Len(x) + 1 close the ends
      Dot(k) == IF k = 0 THEN 0
                ELSE IF k = n + 1 THEN Len(x) + 1
                ELSE CHOOSE d \in dots : Cardinality({e \in dots : e < d}) = k - 1
  IN [k \in 1..(n + 1) |-> SubSeq(x, Dot(k - 1) + 1, Dot(k) - 1)]

AllDigits(x) == \A i \in 1..Len(x) : x[i] \in Digits

\* a core number of at most maxDigits digits
IsNumber(x, maxDigits) ==
  /\ x # <<>>
  /\ AllDigits(x)
  /\ Len(x) > 1 => x[1] # "0"
  /\ Len(x) <= maxDigits

IsPrereleaseText(x) ==
  \A id \in Range(Fields(x)) :
    /\ id # <<>>
    /\ \A i \in 1..Len(id) : id[i] \in IdentChars
    /\ ~(AllDigits(id) /\ Len(id) > 1 /\ id[1] = "0")

IsBuildText(x) ==
  \A id \in Range(Fields(x)) :
    /\ id # <<>>
    /\ \A i \in 1..Len(id) : id[i] \in IdentChars

\* the text after an optional marker
Unmarked(x) ==
  IF x # <<>> /\ x[1] \in {"v", "V"} THEN Tail(x) ELSE x

\* x is [marker] core [-prerelease] [+build] with core numbers of at most
\* maxDigits digits
Grammar(x, maxDigits) ==
  LET y == Unmarked(x) IN
  \E i \in 0..Len(y) : \E j \in i..Len(y) :
    LET core     == Slice(y, 0, i)
        preSeg   == Slice(y, i, j)
        buildSeg == From(y, j)
        nums     == Fields(core)
    IN /\ Len(nums) \in 1..3
       /\ \A n \in Range(nums) : IsNumber(n, maxDigits)
       /\ \/ preSeg = <<>>
          \/ Len(nums) = 3 /\ Head(preSeg) = "-"
               /\ IsPrereleaseText(Tail(preSeg))
       /\ \/ buildSeg = <<>>
          \/ Len(nums) = 3 /\ Head(buildSeg) = "+"
               /\ IsBuildText(Tail(buildSeg))

\* the core of an input: the text after the marker up to the first '-' or '+'
CoreText(x) ==
  LET y   == Unmarked(x)
      cut == Positions(y, "-") \cup Positions(y, "+")
      end == IF cut = {} THEN Len(y)
             ELSE (CHOOSE i \in cut : \A k \in cut : i <= k) - 1
  IN Slice(y, 0, end)

\* the input writes n numbers in its core
WritesNumbers(x, n) ==
  /\ Len(Fields(CoreText(x))) = n
  /\ \A f \in Range(Fields(CoreText(x))) : f # <<>> /\ AllDigits(f)

\* a '-' or '+' directly follows a core of one or two numbers
ShorthandWithSegment(x) ==
  /\ Len(CoreText(x)) < Len(Unmarked(x))
  /\ WritesNumbers(x, 1) \/ WritesNumbers(x, 2)

RECURSIVE Exceeds(_, _, _)
\* the digit run x, read after the value acc, denotes more than limit
Exceeds(x, acc, limit) ==
  IF acc > limit THEN TRUE
  ELSE IF x = <<>> THEN FALSE
  ELSE Exceeds(Tail(x), acc * 10 + DigitVal(Head(x)), limit)

\* a core number of the input denotes more than the largest int
CoreOverflows(x) ==
  \E f \in Range(Fields(CoreText(x))) :
    f # <<>> /\ AllDigits(f) /\ Exceeds(f, 0, MaxInt)

----------------------------------------------------------------------------
(* Claims about Parse *)

Parsed == pc \in {"parsed", "reparsed"}

\* C1 (as stated): Parse(s) is valid exactly when s follows the grammar:
\* optional marker, one to three numbers without leading zeros, and after
\* three numbers an optional prerelease and an optional build.
C1_ValidIffGrammarUnbounded ==
  Parsed => (v.Valid <=> Grammar(s, Len(s)))

\* C1 (amended): Parse(s) is valid exactly when s follows that grammar and
\* each of its core numbers has at most 19 digits.
C1_ValidIffGrammar ==
  Parsed => (v.Valid <=> Grammar(s, MaxDigits))

C1_Witness ==
  pc = "parsed" /\ v.Valid /\ v.Prerelease # <<>> /\ v.Build # <<>>

\* C2: an input with a core number larger than the largest int is invalid.
C2_OverflowIsInvalid ==
  Parsed /\ CoreOverflows(s) => ~v.Valid

\* C3: a '-' or '+' right after a shorthand core makes the input invalid, and
\* a valid result has a prerelease or a build only if the input wrote all
\* three core numbers.
C3_SegmentsNeedFullCore ==
  Parsed =>
    /\ ShorthandWithSegment(s) => ~v.Valid
    /\ v.Valid /\ (v.Prerelease # <<>> \/ v.Build # <<>>
                    \/ v.Flags \cap {FlagHasPre, FlagHasBuild} # {})
         => WritesNumbers(s, 3)

C3_Witness ==
  pc = "parsed" /\ ShorthandWithSegment(s) /\ s[1] = "V" /\ ~v.Valid

\* C4: Parse returns (v, ok) with ok = v.Valid and v.Original = s; an invalid
\* result has zero numbers, empty prerelease and build and no flag.
C4_ResultShape ==
  Parsed =>
    /\ ok = v.Valid
    /\ v.Original = s
    /\ ~ok => /\ v.Major = 0 /\ v.Minor = 0 /\ v.Patch = 0
              /\ v.Prerelease = <<>> /\ v.Build = <<>>
              /\ v.Flags = {}

C4_Witness == pc = "parsed" /\ s = <<"v">> /\ ~ok

\* C9: the canonical rendering of a valid Parse result parses as valid,
\* compares equal to the result and renders canonically to the same text.
C9_CanonicalIdempotent ==
  pc = "reparsed" =>
    /\ w.Valid
    /\ Compare(w, v) = 0
    /\ Canonical(w) = canon

C9_Witness ==
  /\ pc = "reparsed"
  /\ canon # s
  /\ FlagHasPatch \notin v.Flags
  /\ w.Valid

----------------------------------------------------------------------------
(* Claims about Compare *)

Sign(n) == IF n < 0 THEN -1 ELSE IF n > 0 THEN 1 ELSE 0

\* the cores as tuples, and their lexicographic order
CoreOf(x) == <<x.Major, x.Minor, x.Patch>>

TupleLess(x, y) ==
  \E k \in 1..3 : x[k] < y[k] /\ \A j \in 1..(k - 1) : x[j] = y[j]

\* C5: Compare is a total preorder on Parse results: reflexive, antisymmetric
\* in sign, transitive; an invalid value is below every valid one and equal to
\* every invalid one.
C5_TotalPreorder ==
  pc = "compared" =>
    /\ r.aa = 0
    /\ r.ab = -r.ba
    /\ r.ab <= 0 /\ r.bc <= 0 => r.ac <= 0
    /\ ~a.Valid /\ b.Valid => r.ab = -1 /\ r.ba = 1
    /\ ~a.Valid /\ ~b.Valid => r.ab = 0

C5_Witness ==
  /\ pc = "compared"
  /\ a.Valid /\ b.Valid /\ ~c.Valid
  /\ CoreOf(a) = CoreOf(b)
  /\ a.Prerelease # <<>> /\ b.Prerelease # <<>>
  /\ r.ca = -1 /\ r.ab = -1 /\ r.cb = -1

\* C6: for valid a and b, Compare is the sign of the lexicographic order of
\* the cores; with equal cores a version without prerelease is above one with
\* a prerelease, two without are equal and two with are ordered by
\* comparePrerelease.
C6_CoreThenPrerelease ==
  pc = "compared" /\ a.Valid /\ b.Valid =>
    r.ab = IF TupleLess(CoreOf(a), CoreOf(b)) THEN -1
           ELSE IF TupleLess(CoreOf(b), CoreOf(a)) THEN 1
           ELSE IF a.Prerelease = <<>> /\ b.Prerelease = <<>> THEN 0
           ELSE IF a.Prerelease = <<>> THEN 1
           ELSE IF b.Prerelease = <<>> THEN -1
           ELSE comparePrerelease(a.Prerelease, b.Prerelease)

C6_Witness ==
  /\ pc = "compared" /\ a.Valid /\ b.Valid
  /\ CoreOf(a) = CoreOf(b)
  /\ a.Prerelease = <<>> /\ b.Prerelease # <<>>
  /\ r.ab = 1

\* a and c have the same core and prerelease and differ in build metadata
DifferInBuildOnly(x, y) ==
  /\ x.Valid /\ y.Valid
  /\ CoreOf(x) = CoreOf(y)
  /\ x.Prerelease = y.Prerelease
  /\ x.Build # y.Build

\* C7: build metadata never affects Compare.
C7_BuildIgnored ==
  pc = "compared" /\ DifferInBuildOnly(a, c) /\ b.Valid =>
    /\ r.ab = r.cb
    /\ r.ba = r.bc
    /\ r.ac = 0 /\ r.ca = 0

C7_Witness ==
  /\ pc = "compared" /\ DifferInBuildOnly(a, c) /\ b.Valid
  /\ a.Build # <<>> /\ c.Build # <<>>
  /\ r.ab # 0

----------------------------------------------------------------------------
(* Claims about comparePrerelease *)

RECURSIVE Decimal(_, _)
\* the number that the digits x denote after the value acc
Decimal(x, acc) ==
  IF x = <<>> THEN acc ELSE Decimal(Tail(x), acc * 10 + DigitVal(Head(x)))

\* ASCII byte order of two texts
ByteLess(x, y) ==
  \E k \in 1..Len(y) :
    /\ \A j \in 1..(k - 1) : j <= Len(x) /\ x[j] = y[j]
    /\ k > Len(x) \/ Code[x[k]] < Code[y[k]]

\* the reference order of two identifiers
RefIdentCompare(x, y) ==
  IF x = y THEN 0
  ELSE IF AllDigits(x) /\ AllDigits(y)
  THEN Sign(Decimal(x, 0) - Decimal(y, 0))
  ELSE IF AllDigits(x) THEN -1
  ELSE IF AllDigits(y) THEN 1
  ELSE IF ByteLess(x, y) THEN -1
  ELSE 1

\* the reference order of two prerelease texts
RefCompare(x, y) ==
  LET xs == Fields(x)
      ys == Fields(y)
      differ == {k \in 1..Len(xs) : k <= Len(ys) /\ xs[k] # ys[k]}
  IN
  IF differ # {}
  THEN LET k == CHOOSE i \in differ : \A j \in differ : i <= j
       IN RefIdentCompare(xs[k], ys[k])
  ELSE Sign(Len(xs) - Len(ys))

\* C8: comparePrerelease is the SemVer reference order of prerelease texts,
\* and orders alpha < alpha.1 < alpha.beta < beta < beta.2 < beta.11 < rc.1.
C8_ReferenceOrder ==
  pc = "compared" =>
    /\ rp = RefCompare(pa, pb)
    /\ \A i, j \in DOMAIN RefChain :
         pa = RefChain[i] /\ pb = RefChain[j] => rp = Sign(i - j)

C8_Witness ==
  /\ pc = "compared"
  /\ AllDigits(pa) /\ AllDigits(pb)
  /\ Len(pa) < Len(pb) /\ ByteLess(pb, pa)
  /\ rp = -1

----------------------------------------------------------------------------
(* Claims about List.Sort *)

Count(l, x) == Cardinality({i \in 1..Len(l) : l[i] = x})

Originals(l) == [i \in 1..Len(l) |-> l[i].Original]

\* C10: List.Sort leaves a permutation of the list with the invalid entries
\* first, adjacent entries in Compare order, entries that compare equal in
\* ascending byte order of Original, and the same sequence of Originals for
\* every initial order.
C10_SortOrder ==
  pc = "sorted" =>
    /\ Len(ls) = Len(ls0)
    /\ \A x \in Range(ls0) \cup Range(ls) : Count(ls, x) = Count(ls0, x)
    /\ \A i, j \in 1..Len(ls) : ~ls[i].Valid /\ ls[j].Valid => i < j
    /\ \A i \in 1..(Len(ls) - 1) : Compare(ls[i], ls[i + 1]) <= 0
    /\ \A i, j \in 1..Len(ls) :
         i < j /\ Compare(ls[i], ls[j]) = 0
           => ~ByteLess(ls[j].Original, ls[i].Original)
    /\ Originals(ls) = Originals(alt)

C10_Witness ==
  /\ pc = "sorted"
  /\ Len(ls) = MaxList
  /\ ls # ls0
  /\ ~ls[1].Valid /\ ls[2].Valid
  /\ Compare(ls[2], ls[3]) = 0 /\ ls[2] # ls[3]
  /\ Originals(ls0) # Originals(ls)

----------------------------------------------------------------------------
(* Claims about the mutators *)

\* a mutator has been called; rcv is its receiver, nv and nok its results
Called(name) == pc = "called" /\ op = name

\* the result is the failure value for the receiver
IsFailure ==
  /\ nok = FALSE
  /\ nv.Valid = FALSE
  /\ nv.Original = rcv.Original
  /\ nv.Major = 0 /\ nv.Minor = 0 /\ nv.Patch = 0
  /\ nv.Prerelease = <<>> /\ nv.Build = <<>>
  /\ nv.Flags = {}

\* the argument of the call is malformed text for the segment it sets
MalformedArg ==
  \/ op = "WithPre" /\ arg # <<>> /\ ~IsPrereleaseText(arg)
  \/ op = "WithBuild" /\ arg # <<>> /\ ~IsBuildText(arg)

BumpedFlags ==
  /\ {FlagHasMajor, FlagHasMinor, FlagHasPatch} \subseteq nv.Flags
  /\ FlagHasPre \notin nv.Flags /\ FlagHasBuild \notin nv.Flags
  /\ FlagHasV \in nv.Flags <=> FlagHasV \in rcv.Flags

\* C12: on a valid receiver BumpPatch gives (Major, Minor, Patch + 1),
\* BumpMinor (Major, Minor + 1, 0) and BumpMajor (Major + 1, 0, 0); the
\* result is valid, has no prerelease and no build, has the three core flags
\* set and keeps the marker flag.
C12_BumpCore ==
  pc = "called" /\ rcv.Valid /\ op \in {"BumpPatch", "BumpMinor", "BumpMajor"}
  =>
    /\ nok /\ nv.Valid
    /\ op = "BumpPatch" => CoreOf(nv) = <<rcv.Major, rcv.Minor, rcv.Patch + 1>>
    /\ op = "BumpMinor" => CoreOf(nv) = <<rcv.Major, rcv.Minor + 1, 0>>
    /\ op = "BumpMajor" => CoreOf(nv) = <<rcv.Major + 1, 0, 0>>
    /\ nv.Prerelease = <<>> /\ nv.Build = <<>>
    /\ BumpedFlags

\* the text 0.0.0 followed by the segment sign and the text t, parsed
ParsedWith(sign, t) == Parse(Core3("0", "0", "0") \o <<sign>> \o t).v

\* C13: on a valid receiver WithPre(t) succeeds iff t is empty or a complete
\* prerelease (for non-empty t, iff Parse("0.0.0-" + t) is valid with
\* Prerelease = t and no build), so "01", "a..b", ".a", "a." and "a+b" fail;
\* WithBuild(t) succeeds iff t is empty or a complete build (iff
\* Parse("0.0.0+" + t) is valid with Build = t), so "001" succeeds and
\* "bad..seg" fails.
C13_ArgumentCheck ==
  /\ Called("WithPre") /\ rcv.Valid =>
       /\ nok <=> (arg = <<>> \/ IsPrereleaseText(arg))
       /\ arg # <<>> =>
            (nok <=> /\ ParsedWith("-", arg).Valid
                     /\ ParsedWith("-", arg).Prerelease = arg
                     /\ ParsedWith("-", arg).Build = <<>>)
       /\ arg \in BadPreExamples => ~nok
  /\ Called("WithBuild") /\ rcv.Valid =>
       /\ nok <=> (arg = <<>> \/ IsBuildText(arg))
       /\ arg # <<>> =>
            (nok <=> /\ ParsedWith("+", arg).Valid
                     /\ ParsedWith("+", arg).Build = arg)
       /\ arg = GoodBuildExample => nok
       /\ arg = BadBuildExample => ~nok

C13_Witness ==
  /\ Called("WithPre") /\ rcv.Valid
  /\ arg # <<>> /\ AllDigits(arg) /\ Len(arg) = MaxArgLen
  /\ ~nok

\* the core of the receiver with the components of a shorthand read as 0
FilledCore(x) ==
  <<x.Major,
    IF FlagHasMinor \in x.Flags THEN x.Minor ELSE 0,
    IF FlagHasPatch \in x.Flags THEN x.Patch ELSE 0>>

\* the flag f is in the result exactly when it is in the receiver
SameFlag(f) == f \in nv.Flags <=> f \in rcv.Flags

\* C14: a successful WithPre(t) or WithBuild(t) keeps Major, Minor and Patch
\* (0 for the components a shorthand lacks), sets the minor and patch flags,
\* holds t in its field with the field's flag set iff t is non-empty, and
\* leaves the other segment, its flag and the marker flag unchanged.
C14_WithFrame ==
  /\ Called("WithPre") /\ nok =>
       /\ CoreOf(nv) = FilledCore(rcv)
       /\ {FlagHasMinor, FlagHasPatch} \subseteq nv.Flags
       /\ nv.Prerelease = arg
       /\ FlagHasPre \in nv.Flags <=> arg # <<>>
       /\ nv.Build = rcv.Build
       /\ SameFlag(FlagHasBuild) /\ SameFlag(FlagHasV)
  /\ Called("WithBuild") /\ nok =>
       /\ CoreOf(nv) = FilledCore(rcv)
       /\ {FlagHasMinor, FlagHasPatch} \subseteq nv.Flags
       /\ nv.Build = arg
       /\ FlagHasBuild \in nv.Flags <=> arg # <<>>
       /\ nv.Prerelease = rcv.Prerelease
       /\ SameFlag(FlagHasPre) /\ SameFlag(FlagHasV)

C14_Witness ==
  /\ Called("WithBuild") /\ nok
  /\ FlagHasPatch \notin rcv.Flags
  /\ FlagHasV \in rcv.Flags
  /\ arg # <<>>
  /\ nv.Build = arg

\* C15: on a valid receiver StripPre and StripBuild succeed; each empties its
\* segment and clears its flag and leaves Major, Minor, Patch, the other
\* segment and the other flag unchanged; on a receiver without the segment
\* the Canonical rendering is unchanged.
C15_StripFrame ==
  /\ Called("StripPre") /\ rcv.Valid =>
       /\ nok /\ nv.Valid
       /\ nv.Prerelease = <<>> /\ FlagHasPre \notin nv.Flags
       /\ CoreOf(nv) = CoreOf(rcv)
       /\ nv.Build = rcv.Build /\ SameFlag(FlagHasBuild)
       /\ FlagHasPre \notin rcv.Flags => Canonical(nv) = Canonical(rcv)
  /\ Called("StripBuild") /\ rcv.Valid =>
       /\ nok /\ nv.Valid
       /\ nv.Build = <<>> /\ FlagHasBuild \notin nv.Flags
       /\ CoreOf(nv) = CoreOf(rcv)
       /\ nv.Prerelease = rcv.Prerelease /\ SameFlag(FlagHasPre)
       /\ FlagHasBuild \notin rcv.Flags => Canonical(nv) = Canonical(rcv)

C15_Witness ==
  /\ Called("StripPre") /\ rcv.Valid
  /\ rcv.Prerelease # <<>> /\ rcv.Build # <<>>
  /\ nok /\ nv.Build = rcv.Build

\* the decimal text of the number n
DecimalText(n) ==
  CHOOSE d \in Strs(Digits, MaxDecimalLen) :
    /\ d # <<>>
    /\ Len(d) > 1 => d[1] # "0"
    /\ Decimal(d, 0) = n

\* the identifiers of the prerelease that follows the identifiers ids
NextIdentifiers(ids) ==
  IF AllDigits(ids[Len(ids)])
  THEN [ids EXCEPT ![Len(ids)] = DecimalText(Decimal(@, 0) + 1)]
  ELSE Append(ids, <<"1">>)

\* C16: NextPrerelease(base) on a valid receiver succeeds and keeps Major,
\* Minor and Patch; an empty prerelease becomes base + ".1" ("rc" for an
\* empty base); otherwise a last identifier of digits is replaced by the
\* decimal text of its value plus one and the earlier identifiers stay, and
\* after any other last identifier the identifier "1" is appended.
C16_NextPrerelease ==
  Called("NextPrerelease") /\ rcv.Valid =>
    /\ nok /\ nv.Valid
    /\ CoreOf(nv) = CoreOf(rcv)
    /\ rcv.Prerelease = <<>> =>
         nv.Prerelease =
           (IF arg = <<>> THEN <<"r", "c">> ELSE arg) \o <<".", "1">>
    /\ rcv.Prerelease # <<>> =>
         Fields(nv.Prerelease) = NextIdentifiers(Fields(rcv.Prerelease))

C16_Witness ==
  /\ Called("NextPrerelease") /\ rcv.Valid
  /\ rcv.Prerelease = <<"9", "9">>
  /\ nv.Prerelease = <<"1", "0", "0">>

\* C17: a successful NextPrerelease returns a version with empty Build, the
\* build flag cleared and no '+' in its full renderings.
C17_BuildDiscarded ==
  Called("NextPrerelease") /\ rcv.Valid /\ nok =>
    /\ nv.Build = <<>>
    /\ FlagHasBuild \notin nv.Flags
    /\ "+" \notin Range(Full(nv, FALSE))
    /\ "+" \notin Range(SemVer(nv))

\* C18: after every successful mutator call the result's Original is the
\* full rendering of the result's own fields, Full(false).
C18_OriginalIsFull ==
  pc = "called" /\ nok => nv.Original = Full(nv, FALSE)

----------------------------------------------------------------------------
(* Claims about the renderings *)

\* the marker character of the input text, if it has one
MarkerOf(x) ==
  IF x # <<>> /\ x[1] \in {"v", "V"} THEN <<x[1]>> ELSE <<>>

\* MAJOR.MINOR.PATCH with the components a shorthand lacks as 0
ReleaseText(x) ==
  DecimalText(FilledCore(x)[1]) \o <<".">> \o DecimalText(FilledCore(x)[2])
    \o <<".">> \o DecimalText(FilledCore(x)[3])

PrereleaseSuffix(x) ==
  IF x.Prerelease # <<>> THEN <<"-">> \o x.Prerelease ELSE <<>>

BuildSuffix(x) == IF x.Build # <<>> THEN <<"+">> \o x.Build ELSE <<>>

C20_CanonicalAndRelease ==
  pc = "rendered" =>
    IF v.Valid
    THEN /\ out.release = <<"v">> \o ReleaseText(v)
         /\ out.canonical = out.release \o PrereleaseSuffix(v)
         /\ "+" \notin Range(out.canonical)
         /\ s = <<"1">> => out.release = <<"v", "1", ".", "0", ".", "0">>
         /\ s = <<"1", ".", "2">>
              => out.release = <<"v", "1", ".", "2", ".", "0">>
    ELSE out.canonical = <<>> /\ out.release = <<>>

C20_Witness ==
  /\ pc = "rendered" /\ v.Valid
  /\ s = <<"1", ".", "2">>
  /\ out.canonical = <<"v", "1", ".", "2", ".", "0">>

----------------------------------------------------------------------------
(* Claims about the presence accessors *)

\* the input has text after its core, and that text starts with ch
SegmentStarts(x, ch) ==
  /\ Len(CoreText(x)) < Len(Unmarked(x))
  /\ Unmarked(x)[Len(CoreText(x)) + 1] = ch

\* C21: for a valid Parse result HasMajor is true, HasMinor and HasPatch
\* tell whether the input wrote the component, HasPre and HasBuild whether
\* it supplied the segment, and IsRelease is true iff neither; for an
\* invalid result these six are false; HasV is true iff the input begins
\* with 'v' or 'V', valid or not.
C21_Accessors ==
  pc = "flagged" =>
    /\ out.hasV <=> MarkerOf(s) # <<>>
    /\ v.Valid =>
         /\ out.hasMajor
         /\ out.hasMinor <=> Len(Fields(CoreText(s))) >= 2
         /\ out.hasPatch <=> Len(Fields(CoreText(s))) >= 3
         /\ out.hasPre <=> SegmentStarts(s, "-")
         /\ out.hasBuild <=> "+" \in Range(s)
         /\ out.isRelease <=> ~out.hasPre /\ ~out.hasBuild
    /\ ~v.Valid =>
         /\ ~out.hasMajor /\ ~out.hasMinor /\ ~out.hasPatch
         /\ ~out.hasPre /\ ~out.hasBuild /\ ~out.isRelease

C21_Witness ==
  /\ pc = "flagged"
  /\ ~v.Valid
  /\ out.hasV
  /\ SegmentStarts(s, "-")

----------------------------------------------------------------------------
(* Claims about the versions that mutator calls reach *)

\* C22: in every valid version reached from a Parse result by successful
\* mutator calls the prerelease flag is set iff Prerelease is non-empty and
\* the build flag is set iff Build is non-empty.
C22_FlagsMatchText ==
  nv.Valid =>
    /\ FlagHasPre \in nv.Flags <=> nv.Prerelease # <<>>
    /\ FlagHasBuild \in nv.Flags <=> nv.Build # <<>>

C22_Witness ==
  /\ Called("StripBuild") /\ nok
  /\ rcv.Build # <<>> /\ rcv.Prerelease # <<>>
  /\ depth = MaxCalls

\* C23: in every valid version reached from a Parse result by successful
\* mutator calls, a set prerelease or build flag comes with the minor and
\* patch flags set.
C23_SegmentsNeedFullCore ==
  nv.Valid /\ nv.Flags \cap {FlagHasPre, FlagHasBuild} # {}
    => {FlagHasMinor, FlagHasPatch} \subseteq nv.Flags

\* C24: every version returned with ok = true by Parse or a mutator, for any
\* argument text, has an empty or grammar-valid Prerelease and an empty or
\* grammar-valid Build, and its Full rendering parses as valid.
C24_WellFormed ==
  nok =>
    /\ nv.Prerelease = <<>> \/ IsPrereleaseText(nv.Prerelease)
    /\ nv.Build = <<>> \/ IsBuildText(nv.Build)
    /\ Parse(Full(nv, FALSE)).v.Valid

\* C28: for every valid version v reached from a Parse result by successful
\* mutator calls, Parse(v.Original) is valid and has the numbers, the
\* prerelease, the build and the flags of v.
C28_OriginalRoundTrip ==
  nv.Valid =>
    /\ Parse(nv.Original).v.Valid
    /\ CoreOf(Parse(nv.Original).v) = CoreOf(nv)
    /\ Parse(nv.Original).v.Prerelease = nv.Prerelease
    /\ Parse(nv.Original).v.Build = nv.Build
    /\ Parse(nv.Original).v.Flags = nv.Flags

\* the release with the core of x
ReleaseOf(x) ==
  [x EXCEPT !.Prerelease = <<>>, !.Build = <<>>,
            !.Flags = @ \ {FlagHasPre, FlagHasBuild}]

\* C29: NextPrerelease on a valid version that has a prerelease returns a
\* version strictly above the receiver and strictly below the release with
\* the same core, for any base.
C29_NextIsGreater ==
  Called("NextPrerelease") /\ rcv.Valid /\ rcv.Prerelease # <<>> =>
    /\ nok
    /\ Compare(nv, rcv) = 1 /\ Compare(rcv, nv) = -1
    /\ Compare(nv, ReleaseOf(nv)) = -1

C29_Witness ==
  /\ Called("NextPrerelease") /\ rcv.Valid
  /\ depth = MaxCalls
  /\ rcv.Prerelease = <<"r", "c", ".", "9">>
  /\ Compare(nv, rcv) = 1

\* C30: on a valid receiver the three bumps return a version with
\* non-negative Major, Minor and Patch that compares strictly above the
\* receiver, also when the number to increment is the largest int, and its
\* Canonical rendering parses as valid.
C30_BumpNoOverflow ==
  pc = "called" /\ rcv.Valid /\ op \in {"BumpPatch", "BumpMinor", "BumpMajor"}
  =>
    /\ nv.Major >= 0 /\ nv.Minor >= 0 /\ nv.Patch >= 0
    /\ Compare(nv, rcv) = 1
    /\ Parse(Canonical(nv)).v.Valid

----------------------------------------------------------------------------
(* Claims about Print *)

\* the number of core components that a mask shows
ShownComponents(m) ==
  IF PrintPatch \in m THEN 3
  ELSE IF PrintMinor \in m THEN 2
  ELSE IF PrintMajor \in m THEN 1
  ELSE 0

\* the first n components of the core of x, dot-separated
CorePrefixText(x, n) ==
  (IF n >= 1 THEN DecimalText(FilledCore(x)[1]) ELSE <<>>)
    \o (IF n >= 2 THEN <<".">> \o DecimalText(FilledCore(x)[2]) ELSE <<>>)
    \o (IF n >= 3 THEN <<".">> \o DecimalText(FilledCore(x)[3]) ELSE <<>>)

\* the marker that a mask shows
ShownMarker(x, m) ==
  IF PrintPrefixV \in m THEN <<"v">>
  ELSE IF PrintPrefixNoV \in m THEN <<>>
  ELSE MarkerOf(x.Original)

\* marker and core as the mask shows them
ShownHead(x, m) == ShownMarker(x, m) \o CorePrefixText(x, ShownComponents(m))

\* C25: Print(mask) on a valid version keeps the shape MAJOR[.MINOR[.PATCH]]:
\* a requested patch brings minor and major, a requested minor brings major,
\* the components a shorthand lacks are 0 (PrintPrefixNoV|PrintPatch on
\* Parse("1") gives "1.0.0"), and without a prefix bit the marker is the
\* input's own or none.
C25_PrintShape ==
  pc = "printed" /\ v.Valid =>
    /\ Len(out) >= Len(ShownHead(v, pmask))
    /\ Slice(out, 0, Len(ShownHead(v, pmask))) = ShownHead(v, pmask)
    /\ v.Original = <<"1">> /\ pmask = {PrintPrefixNoV, PrintPatch}
         => out = Core3("1", "0", "0")

C25_Witness ==
  /\ pc = "printed" /\ v.Valid
  /\ pmask = {PrintPatch}
  /\ v.Original = <<"V", "1">>
  /\ out = <<"V">> \o Core3("1", "0", "0")

\* the segment that Print shows for the text under its mask bit and its flag
ShownSegment(sign, text, requested, flagged) ==
  IF requested /\ flagged /\ text # <<>> THEN <<sign>> \o text ELSE <<>>

\* C26: after marker and core Print writes '-' and the prerelease only when
\* the mask asks for it, the flag is set and the text is non-empty, and '+'
\* and the build likewise; a set flag with empty text, or a text with a clear
\* flag, gives no separator and no text.
C26_PrintSegments ==
  pc = "printed" /\ v.Valid /\ Len(out) >= Len(ShownHead(v, pmask)) =>
    From(out, Len(ShownHead(v, pmask))) =
      ShownSegment("-", v.Prerelease, PrintPrerelease \in pmask,
                   FlagHasPre \in v.Flags)
        \o ShownSegment("+", v.Build, PrintBuild \in pmask,
                        FlagHasBuild \in v.Flags)

C26_Witness ==
  /\ pc = "printed" /\ v.Valid
  /\ {PrintPrerelease, PrintBuild} \subseteq pmask
  /\ v.Prerelease # <<>> /\ FlagHasPre \notin v.Flags
  /\ v.Build # <<>> /\ FlagHasBuild \in v.Flags
  /\ "+" \in Range(out)

----------------------------------------------------------------------------
(* Claims about the order of the strips *)

\* C27: on a valid version StripPre after StripBuild and StripBuild after
\* StripPre both succeed and give the same value (core, Original, Canonical
\* and Full renderings, IsRelease true), and a second StripPre or StripBuild
\* gives what the first one gave.
C27_StripOrders ==
  pc = "stripped" /\ nv.Valid =>
    /\ out.buildPre.ok /\ out.preBuild.ok
    /\ out.buildPre.v = out.preBuild.v
    /\ CoreOf(out.buildPre.v) = CoreOf(out.preBuild.v)
    /\ out.buildPre.v.Original = out.preBuild.v.Original
    /\ Canonical(out.buildPre.v) = Canonical(out.preBuild.v)
    /\ Full(out.buildPre.v, TRUE) = Full(out.preBuild.v, TRUE)
    /\ Full(out.buildPre.v, FALSE) = Full(out.preBuild.v, FALSE)
    /\ IsRelease(out.buildPre.v) /\ IsRelease(out.preBuild.v)
    /\ out.preTwice = out.pre
    /\ out.buildTwice = out.build

C27_Witness ==
  /\ pc = "stripped" /\ nv.Valid
  /\ nv.Prerelease # <<>> /\ nv.Build # <<>>
  /\ out.pre.v.Build # <<>> /\ out.build.v.Prerelease # <<>>
  /\ out.buildPre.ok /\ IsRelease(out.buildPre.v)
  /\ out.buildPre.v.Original # nv.Original

====
